---- MODULE Spec2Model ----
(***************************************************************************)
(* Model of fetch_stocks.py: the per-(symbol, interval) incremental sync   *)
(* of fetch_and_update (specification Spec) and the thread-pool run of     *)
(* main / fetch_worker (specification RunSpec).                            *)
(*                                                                         *)
(* A timestamp is a wall-clock value 1..MaxTs (one unit = one day); a      *)
(* frame is a DatetimeIndex zone flag plus its rows in positional order;   *)
(* a bar carries one numeric field, close.                                 *)
(***************************************************************************)
EXTENDS Integers, Sequences, FiniteSets, TLC

\* ---------------------------------------------------------------- bounds
MaxTs == 2
MaxResp == 2
MaxNow == 4
MaxSymbols == 2
MaxPoolRows == 5

\* ------------------------------------------------------ program constants
MAX_WORKERS == 4

INTERVAL_ORDER ==
  <<"1m", "2m", "5m", "15m", "30m", "60m", "90m", "1h",
    "1d", "5d", "1wk", "1mo", "3mo">>

INTERVAL_LIMITS ==
  ("1m" :> "7d") @@ ("2m" :> "60d") @@ ("5m" :> "60d") @@ ("15m" :> "60d") @@
  ("30m" :> "60d") @@ ("60m" :> "730d") @@ ("90m" :> "60d") @@ ("1h" :> "730d") @@
  ("1d" :> "max") @@ ("5d" :> "max") @@ ("1wk" :> "max") @@ ("1mo" :> "max") @@
  ("3mo" :> "max")

DAILY_PLUS_WithoutWeekly == {"1d", "5d", "1mo", "3mo"}

\* the literal list of line 78
DAILY_PLUS == {"1d", "5d", "1wk", "1mo", "3mo"}

\* ------------------------------------------------------------ data values
Symbols == {"A", "B"}
Closes == {100, 105}
Zones == {"naive", "aware"}
Bars == [ts : 1..MaxTs, close : Closes]

\* pd.DataFrame(): no rows, no zone
EmptyFrame == [tz |-> "naive", rows |-> <<>>]

AbsentFile == [kind |-> "absent", tz |-> "naive", rows |-> <<>>]
\* a file of zero bytes: read_csv raises EmptyDataError
ZeroByteFile == [kind |-> "unreadable", tz |-> "naive", rows |-> <<>>]

NoReq == [kind |-> "none", period |-> "", start |-> 0]

NonDecreasing(rows) ==
  \A k \in 1..Len(rows) - 1 : rows[k].ts <= rows[k + 1].ts

StrictlyAscending(rows) ==
  \A k \in 1..Len(rows) - 1 : rows[k].ts < rows[k + 1].ts

HasDuplicates(rows) ==
  \E j, k \in 1..Len(rows) : j < k /\ rows[j].ts = rows[k].ts

TimestampsOf(rows) == {rows[k].ts : k \in 1..Len(rows)}

\* What yf.download can hand back when it returns rows: an index in time
\* order (a timestamp may repeat), no bar later than the present.
Responses(t) ==
  {[tz |-> z, rows |-> r] :
     z \in Zones,
     r \in {s \in UNION {[1..n -> Bars] : n \in 1..MaxResp} :
              NonDecreasing(s) /\ \A k \in 1..Len(s) : s[k].ts <= t}}

\* ------------------------------------------------------- frame operations
RECURSIVE Pick(_, _, _)
Pick(rows, keep, k) ==
  IF k > Len(rows) THEN <<>>
  ELSE (IF k \in keep THEN <<rows[k]>> ELSE <<>>) \o Pick(rows, keep, k + 1)

DropDupKeepFirst(rows) ==
  Pick(rows,
       {k \in 1..Len(rows) : \A j \in 1..(k - 1) : rows[j].ts # rows[k].ts},
       1)

\* df[~df.index.duplicated(keep='last')]
DropDupKeepLast(rows) ==
  Pick(rows,
       {k \in 1..Len(rows) : \A j \in (k + 1)..Len(rows) : rows[j].ts # rows[k].ts},
       1)

\* lines 96-100 / 127-131: the zone each side carries after alignment
AlignedExistingTz(existing, new_data) ==
  IF existing.rows # <<>> /\ existing.tz = "naive" /\ new_data.tz = "aware"
  THEN "aware" ELSE existing.tz

AlignedNewTzStripsZone(existing, new_data) ==
  IF existing.rows # <<>> /\ existing.tz # new_data.tz
  THEN "naive" ELSE new_data.tz

AlignedNewTz(existing, new_data) ==
  IF existing.rows # <<>> /\ existing.tz = "aware" /\ new_data.tz = "naive"
  THEN "aware" ELSE new_data.tz

ConcatKeepFirst(existing, new_data) ==
  [tz |-> AlignedNewTz(existing, new_data),
   rows |-> DropDupKeepFirst(existing.rows \o DropDupKeepLast(new_data.rows))]

\* lines 88-103 / 119-134: clean new_data, align zones, concat, drop duplicates
Concat(existing, new_data) ==
  [tz |-> AlignedNewTz(existing, new_data),
   rows |-> DropDupKeepLast(existing.rows \o DropDupKeepLast(new_data.rows))]

CleanDataKeepAll(data) == data

\* lines 54-55, 150-151: drop repeated timestamps, keeping the last
CleanData(data) == [tz |-> data.tz, rows |-> DropDupKeepLast(data.rows)]

\* the frame handed to to_csv on each path
ToWrite(br, existing, data) ==
  CASE br = "noarchive" -> data
    [] br = "invalid" -> CleanData(data)
    [] OTHER -> Concat(existing, data)

\* DataFrame.to_csv / pd.read_csv(index_col=0, parse_dates=True)
ToCsv(frame) == [kind |-> "table", tz |-> frame.tz, rows |-> frame.rows]
ReadCsv(f) == [tz |-> f.tz, rows |-> f.rows]

\* what a to_csv that did not finish leaves on disk: nothing after the
\* truncating open, or the header and the first k rows
Partial(frame, k) ==
  [kind |-> "table", tz |-> frame.tz, rows |-> SubSeq(frame.rows, 1, k)]

Torn(frame) ==
  {ZeroByteFile} \cup {Partial(frame, k) : k \in 0..(Len(frame.rows) - 1)}


\* ------------------------------------------------------------------ state
VARIABLES
  interval,     \* the interval of the (symbol, interval) pair being synced
  now,          \* datetime.now()
  file,         \* csv_file on disk
  pc,           \* where the loop body for this pair stands
  branch,       \* the path the body took
  existing_df,  \* local of fetch_and_update
  req,          \* arguments of the yf.download call in flight
  new_data,     \* what yf.download returned
  calls,        \* yf.download calls made by this execution of the body
  writes,       \* to_csv calls made by this execution of the body
  warned,       \* "Error reading ..." was printed
  outcome,      \* how the last execution of the body ended
  source_file,  \* EQUITY_L.csv: whether it exists, and its SYMBOL column
  mainpc,       \* where main stands
  futures,      \* one future per submitted task
  threads,      \* each task's position inside fetch_worker
  collected     \* what main saw of each future taken from as_completed

syncVars ==
  <<interval, now, file, pc, branch, existing_df, req, new_data,
    calls, writes, warned, outcome>>
runVars == <<source_file, mainpc, futures, threads, collected>>
vars == <<syncVars, runVars>>

\* ------------------------------------------------- fetch_and_update, body
\* index[-1] of the cleaned frame; 0 stands for None
LastDate(frame) ==
  IF frame.rows = <<>> THEN 0 ELSE frame.rows[Len(frame.rows)].ts

\* lines 49-66: existing_df as the body holds it after the load
Existing(f) ==
  IF f.kind = "table" THEN CleanData(ReadCsv(f)) ELSE EmptyFrame

\* lines 49, 68, 78: which of the four paths the body takes
Branch(f, iv) ==
  CASE f.kind = "absent" -> "noarchive"
    [] LastDate(Existing(f)) = 0 -> "invalid"
    [] iv \in DAILY_PLUS -> "coarse"
    [] OTHER -> "intraday"

\* lines 80-81
StartDate(last_date) == last_date + 1

ShouldFetchInclusive(start_date, t) == start_date <= t

ShouldFetch(start_date, t) == start_date < t

RequestByIntervalOnly(br, iv, last_date) ==
  IF iv \in DAILY_PLUS
  THEN [kind |-> "start", period |-> "", start |-> StartDate(last_date)]
  ELSE [kind |-> "period", period |-> INTERVAL_LIMITS[iv], start |-> 0]

\* lines 83, 114, 145, 159: the selector passed to yf.download
Request(br, iv, last_date) ==
  IF br = "coarse"
  THEN [kind |-> "start", period |-> "", start |-> StartDate(last_date)]
  ELSE [kind |-> "period", period |-> INTERVAL_LIMITS[iv], start |-> 0]

Finish(how) ==
  /\ pc' = "idle"
  /\ outcome' = how
  /\ existing_df' = EmptyFrame
  /\ new_data' = EmptyFrame
  /\ req' = NoReq

\* lines 46-83, 114, 145, 159: load the archive, choose the path, issue the
\* request (or skip it when the archive is current)
Load ==
  /\ pc = "idle"
  /\ LET br == Branch(file, interval)
         df == Existing(file)
         skip == br = "coarse" /\ ~ShouldFetch(StartDate(LastDate(df)), now)
     IN /\ branch' = br
        /\ warned' = (file.kind = "unreadable")
        /\ writes' = 0
        /\ IF skip
           THEN /\ calls' = 0
                /\ Finish("current")
           ELSE /\ calls' = 1
                /\ pc' = "calling"
                /\ outcome' = "none"
                /\ existing_df' = df
                /\ req' = Request(br, interval, LastDate(df))
                /\ new_data' = EmptyFrame
  /\ UNCHANGED <<interval, now, file, runVars>>

ProviderRaiseTruncates ==
  /\ pc = "calling"
  /\ file' = ZeroByteFile
  /\ Finish("raised")
  /\ UNCHANGED <<interval, now, branch, calls, writes, warned, runVars>>

\* lines 165-167: yf.download raised
ProviderRaise ==
  /\ pc = "calling"
  /\ Finish("raised")
  /\ UNCHANGED <<interval, now, file, branch, calls, writes, warned, runVars>>

ProviderEmptyWritesHeader ==
  /\ pc = "calling"
  /\ file' = ToCsv(EmptyFrame)
  /\ writes' = writes + 1
  /\ Finish("empty")
  /\ UNCHANGED <<interval, now, branch, calls, warned, runVars>>

\* lines 87, 118, 148, 162: the response is empty
ProviderEmpty ==
  /\ pc = "calling"
  /\ Finish("empty")
  /\ UNCHANGED <<interval, now, file, branch, calls, writes, warned, runVars>>

\* lines 83-104, 114-135, 145-154, 159-163: a response with rows; the body
\* cleans and merges it and calls to_csv
ProviderData ==
  /\ pc = "calling"
  /\ \E r \in Responses(now) : new_data' = r
  /\ pc' = "saving"
  /\ writes' = writes + 1
  /\ UNCHANGED <<interval, now, file, branch, existing_df, req, calls,
                 warned, outcome, runVars>>

\* to_csv returns: csv_file holds the whole frame
SaveClose ==
  /\ pc = "saving"
  /\ file' = ToCsv(ToWrite(branch, existing_df, new_data))
  /\ Finish("saved")
  /\ UNCHANGED <<interval, now, branch, calls, writes, warned, runVars>>

\* lines 105-106, 136-137, 165-166: to_csv raised, at the open (csv_file is
\* as it was) or after it (csv_file is left as far as it was written)
SaveRaise ==
  /\ pc = "saving"
  /\ file' \in {file} \cup Torn(ToWrite(branch, existing_df, new_data))
  /\ Finish("writefail")
  /\ UNCHANGED <<interval, now, branch, calls, writes, warned, runVars>>

\* the process is killed from outside while the request is in flight
KillCalling ==
  /\ pc = "calling"
  /\ Finish("killed")
  /\ UNCHANGED <<interval, now, file, branch, calls, writes, warned, runVars>>

\* the process is killed from outside while to_csv runs
KillSaving ==
  /\ pc = "saving"
  /\ file' \in {file} \cup Torn(ToWrite(branch, existing_df, new_data))
  /\ Finish("killed")
  /\ UNCHANGED <<interval, now, branch, calls, writes, warned, runVars>>

\* time passes between runs
Tick ==
  /\ pc = "idle"
  /\ now < MaxNow
  /\ now' = now + 1
  /\ UNCHANGED <<interval, file, pc, branch, existing_df, req, new_data,
                 calls, writes, warned, outcome, runVars>>

RunIdle ==
  /\ source_file = [exists |-> FALSE, rows |-> <<>>]
  /\ mainpc = "exit"
  /\ futures = <<>>
  /\ threads = <<>>
  /\ collected = {}

Init ==
  /\ interval \in DOMAIN INTERVAL_LIMITS
  /\ now = 1
  /\ file = AbsentFile
  /\ pc = "idle"
  /\ branch = "noarchive"
  /\ existing_df = EmptyFrame
  /\ req = NoReq
  /\ new_data = EmptyFrame
  /\ calls = 0
  /\ writes = 0
  /\ warned = FALSE
  /\ outcome = "none"
  /\ RunIdle

Next ==
  \/ Load
  \/ ProviderRaise
  \/ ProviderEmpty
  \/ ProviderData
  \/ SaveClose
  \/ SaveRaise
  \/ KillCalling
  \/ KillSaving
  \/ Tick

Spec == Init /\ [][Next]_vars

\* ------------------------------------------------- main and fetch_worker
\* The file of a task is <company dir>/<symbol>_<interval>.csv; the company
\* name of a row is taken to be fixed by its symbol, so two tasks share a
\* file exactly when they have the same symbol and stand at the same interval.
NumIntervals == Len(INTERVAL_ORDER)

SymbolLists == UNION {[1..n -> Symbols] : n \in 0..MaxSymbols}

Tasks == DOMAIN futures

Running == {t \in Tasks : futures[t].st = "running"}

\* the loop of line 45 moves to the next interval, or ends
NextIteration(th) ==
  IF th.iv < NumIntervals
  THEN [th EXCEPT !.iv = th.iv + 1, !.pc = "top"]
  ELSE [th EXCEPT !.iv = th.iv + 1, !.pc = "return"]

AfterFailureLeavesLoop(th) == [th EXCEPT !.hit = TRUE, !.pc = "return"]

\* lines 165-167, 105-106, 136-137: the except clauses print and the loop
\* goes on; hit remembers that this task ran into a failure
AfterFailure(th) == NextIteration([th EXCEPT !.hit = TRUE])

\* line 181
WorkerResult(th) == "done"

\* lines 184-186
MainNoSource ==
  /\ mainpc = "start"
  /\ ~source_file.exists
  /\ mainpc' = "exit"
  /\ UNCHANGED <<source_file, futures, threads, collected, syncVars>>

\* lines 188-203: one task per row, all submitted to the pool
MainSubmit ==
  /\ mainpc = "start"
  /\ source_file.exists
  /\ futures' = [t \in DOMAIN source_file.rows |-> [st |-> "pending", res |-> "none"]]
  /\ threads' = [t \in DOMAIN source_file.rows |->
                   [symbol |-> source_file.rows[t], iv |-> 0, pc |-> "queued", hit |-> FALSE]]
  /\ mainpc' = "collecting"
  /\ UNCHANGED <<source_file, collected, syncVars>>

WorkerTakeUnbounded(t) ==
  /\ futures[t].st = "pending"
  /\ \A u \in Tasks : u < t => futures[u].st # "pending"
  /\ futures' = [futures EXCEPT ![t].st = "running"]
  /\ threads' = [threads EXCEPT ![t].pc = "sleep"]
  /\ UNCHANGED <<source_file, mainpc, collected, syncVars>>

\* ThreadPoolExecutor(max_workers=MAX_WORKERS): a free worker takes the
\* oldest pending task; lines 175-179
WorkerTake(t) ==
  /\ futures[t].st = "pending"
  /\ \A u \in Tasks : u < t => futures[u].st # "pending"
  /\ Cardinality(Running) < MAX_WORKERS
  /\ futures' = [futures EXCEPT ![t].st = "running"]
  /\ threads' = [threads EXCEPT ![t].pc = "sleep"]
  /\ UNCHANGED <<source_file, mainpc, collected, syncVars>>

\* lines 179-180, 37-45: the sleep ends, fetch_and_update enters its loop
WorkerWake(t) ==
  /\ threads[t].pc = "sleep"
  /\ threads' = [threads EXCEPT ![t] = NextIteration(@)]
  /\ UNCHANGED <<source_file, mainpc, futures, collected, syncVars>>

\* lines 46-83, 114, 145, 159: the archive is loaded and the request issued
BodyLoad(t) ==
  /\ threads[t].pc = "top"
  /\ threads' = [threads EXCEPT ![t].pc = "calling"]
  /\ UNCHANGED <<source_file, mainpc, futures, collected, syncVars>>

\* line 81 false: a daily-or-coarser archive is current, nothing is fetched
BodySkip(t) ==
  /\ threads[t].pc = "top"
  /\ INTERVAL_ORDER[threads[t].iv] \in DAILY_PLUS
  /\ threads' = [threads EXCEPT ![t] = NextIteration(@)]
  /\ UNCHANGED <<source_file, mainpc, futures, collected, syncVars>>

\* lines 165-167: yf.download raised
BodyRaise(t) ==
  /\ threads[t].pc = "calling"
  /\ threads' = [threads EXCEPT ![t] = AfterFailure(@)]
  /\ UNCHANGED <<source_file, mainpc, futures, collected, syncVars>>

\* lines 87, 118, 148, 162: the response is empty
BodyEmpty(t) ==
  /\ threads[t].pc = "calling"
  /\ threads' = [threads EXCEPT ![t] = NextIteration(@)]
  /\ UNCHANGED <<source_file, mainpc, futures, collected, syncVars>>

\* a response with rows: to_csv is called
BodyData(t) ==
  /\ threads[t].pc = "calling"
  /\ threads' = [threads EXCEPT ![t].pc = "saving"]
  /\ UNCHANGED <<source_file, mainpc, futures, collected, syncVars>>

\* lines 104, 135, 154, 163: to_csv returns
BodySaved(t) ==
  /\ threads[t].pc = "saving"
  /\ threads' = [threads EXCEPT ![t] = NextIteration(@)]
  /\ UNCHANGED <<source_file, mainpc, futures, collected, syncVars>>

\* lines 105-106, 136-137, 165-166: to_csv raised
BodySaveRaise(t) ==
  /\ threads[t].pc = "saving"
  /\ threads' = [threads EXCEPT ![t] = AfterFailure(@)]
  /\ UNCHANGED <<source_file, mainpc, futures, collected, syncVars>>

\* line 181: fetch_worker returns, the future is finished
WorkerReturn(t) ==
  /\ threads[t].pc = "return"
  /\ threads' = [threads EXCEPT ![t].pc = "finished"]
  /\ futures' = [futures EXCEPT ![t] = [st |-> "finished", res |-> WorkerResult(threads[t])]]
  /\ UNCHANGED <<source_file, mainpc, collected, syncVars>>

\* lines 205-211: main takes a finished future; "Task failed" is printed
\* when future.result() raises
MainCollect(t) ==
  /\ mainpc = "collecting"
  /\ futures[t].st = "finished"
  /\ \A c \in collected : c.task # t
  /\ collected' = collected \cup {[task |-> t, failed |-> futures[t].res = "exception"]}
  /\ UNCHANGED <<source_file, mainpc, futures, threads, syncVars>>

\* the as_completed loop has seen every future; main returns
MainExit ==
  /\ mainpc = "collecting"
  /\ \A t \in Tasks : \E c \in collected : c.task = t
  /\ mainpc' = "exit"
  /\ UNCHANGED <<source_file, futures, threads, collected, syncVars>>

RunInit ==
  /\ source_file \in [exists : BOOLEAN, rows : SymbolLists]
  /\ mainpc = "start"
  /\ futures = <<>>
  /\ threads = <<>>
  /\ collected = {}
  /\ interval = INTERVAL_ORDER[1]
  /\ now = 1
  /\ file = AbsentFile
  /\ pc = "idle"
  /\ branch = "noarchive"
  /\ existing_df = EmptyFrame
  /\ req = NoReq
  /\ new_data = EmptyFrame
  /\ calls = 0
  /\ writes = 0
  /\ warned = FALSE
  /\ outcome = "none"

RunNext ==
  \/ MainNoSource
  \/ MainSubmit
  \/ MainExit
  \/ \E t \in Tasks : WorkerTake(t)
  \/ \E t \in Tasks : WorkerWake(t)
  \/ \E t \in Tasks : BodyLoad(t)
  \/ \E t \in Tasks : BodySkip(t)
  \/ \E t \in Tasks : BodyRaise(t)
  \/ \E t \in Tasks : BodyEmpty(t)
  \/ \E t \in Tasks : BodyData(t)
  \/ \E t \in Tasks : BodySaved(t)
  \/ \E t \in Tasks : BodySaveRaise(t)
  \/ \E t \in Tasks : WorkerReturn(t)
  \/ \E t \in Tasks : MainCollect(t)

RunSpec == RunInit /\ [][RunNext]_vars

\* The run again, with the provider and the threads making progress: a call
\* to yf.download returns or raises, a runnable thread runs.
FairRunSpec == RunSpec /\ WF_vars(RunNext)

\* -------------------------------------------------- the pool, task by task
\* The same run seen from the pool: fetch_and_update(symbol) as one step,
\* which is all the executor sees of a task, and symbol lists longer than
\* the pool. The rows hold distinct symbols, named by their row number.
PoolLists == {[k \in 1..n |-> k] : n \in 0..MaxPoolRows}

\* lines 45-167: the loop over every interval, run to its end
TaskRun(t) ==
  /\ threads[t].pc = "top"
  /\ threads[t].iv = 1
  /\ \E h \in BOOLEAN :
       threads' = [threads EXCEPT ![t] =
                     [@ EXCEPT !.iv = NumIntervals + 1, !.pc = "return", !.hit = h]]
  /\ UNCHANGED <<source_file, mainpc, futures, collected, syncVars>>

PoolInit ==
  /\ source_file \in [exists : {TRUE}, rows : PoolLists]
  /\ mainpc = "start"
  /\ futures = <<>>
  /\ threads = <<>>
  /\ collected = {}
  /\ interval = INTERVAL_ORDER[1]
  /\ now = 1
  /\ file = AbsentFile
  /\ pc = "idle"
  /\ branch = "noarchive"
  /\ existing_df = EmptyFrame
  /\ req = NoReq
  /\ new_data = EmptyFrame
  /\ calls = 0
  /\ writes = 0
  /\ warned = FALSE
  /\ outcome = "none"

PoolNext ==
  \/ MainSubmit
  \/ MainExit
  \/ \E t \in Tasks : WorkerTake(t)
  \/ \E t \in Tasks : WorkerWake(t)
  \/ \E t \in Tasks : TaskRun(t)
  \/ \E t \in Tasks : WorkerReturn(t)
  \/ \E t \in Tasks : MainCollect(t)

PoolSpec == PoolInit /\ [][PoolNext]_vars

\* ------------------------------------------------------------- properties
\* the close of the last row of rows that carries timestamp t
LastCloseAt(rows, t) ==
  rows[CHOOSE k \in 1..Len(rows) :
         /\ rows[k].ts = t
         /\ \A j \in (k + 1)..Len(rows) : rows[j].ts # t].close

Merging == branch \in {"coarse", "intraday"}
SaveCompletes == pc = "saving" /\ outcome' = "saved"

\* C1: the persisted archive never holds two rows with equal timestamps,
\* whatever the provider returns, the first sync included.
C1_NoDuplicateTimestamps == ~HasDuplicates(file.rows)

\* C2: when a sync merges a response into an existing archive, every
\* timestamp present in both is persisted exactly once, with the values of
\* the incoming bar.
C2_LastWriteWins ==
  [][(SaveCompletes /\ Merging) =>
       \A t \in TimestampsOf(file.rows) \cap TimestampsOf(new_data.rows) :
         /\ Cardinality({k \in 1..Len(file'.rows) : file'.rows[k].ts = t}) = 1
         /\ LastCloseAt(file'.rows, t) = LastCloseAt(new_data.rows, t)]_vars

C2_Witness ==
  /\ pc = "saving"
  /\ Merging
  /\ file.rows = <<[ts |-> 1, close |-> 100]>>
  /\ new_data.rows = <<[ts |-> 1, close |-> 105], [ts |-> 2, close |-> 100]>>

\* C3: after every save of an ascending response into an ascending archive
\* the persisted archive is strictly ascending by timestamp.
C3_AscendingAfterSave ==
  [][(SaveCompletes /\ StrictlyAscending(file.rows)
        /\ StrictlyAscending(new_data.rows)) =>
       StrictlyAscending(file'.rows)]_vars

C5_AtMostOneCallOneWrite ==
  /\ calls \in {0, 1}
  /\ writes \in {0, 1}
  /\ writes = 1 =>
       /\ calls = 1
       /\ outcome \notin {"current", "raised", "empty"}
       /\ pc # "calling"
       /\ pc = "saving" => new_data.rows # <<>>

C5_Witness ==
  /\ pc = "idle"
  /\ outcome = "saved"
  /\ branch = "intraday"
  /\ calls = 1
  /\ writes = 1

\* C6: with no archive file, an empty or failed response ends the task with
\* still no file, and the next sync of the pair takes the no-archive path
\* again and asks for the interval's full retention period.
C6_NoFileAfterEmptyOrFailed ==
  [][/\ (pc = "calling" /\ branch = "noarchive" /\ outcome' \in {"empty", "raised"})
          => (file'.kind = "absent" /\ pc' = "idle")
     /\ (pc = "idle" /\ branch = "noarchive" /\ outcome \in {"empty", "raised"}
           /\ pc' # "idle")
          => /\ branch' = "noarchive"
             /\ req' = [kind |-> "period", period |-> INTERVAL_LIMITS[interval],
                        start |-> 0]]_vars

C6_Witness ==
  /\ pc = "idle"
  /\ branch = "noarchive"
  /\ outcome = "empty"
  /\ file.kind = "absent"
  /\ interval = "1d"

\* C7: a save is atomic: every step taken while to_csv runs leaves on disk
\* the complete previous archive or the complete new one.
C7_AtomicSave ==
  [][pc = "saving" =>
       \/ file' = file
       \/ file' = ToCsv(ToWrite(branch, existing_df, new_data))]_vars

\* C8: no two tasks of a run are between the load and the save of the same
\* (symbol, interval) archive at the same time.
C8_NoConcurrentSamePair ==
  \A t, u \in DOMAIN threads :
    (t # u /\ threads[t].symbol = threads[u].symbol
       /\ threads[t].iv = threads[u].iv)
      => ~(threads[t].pc \in {"calling", "saving"}
             /\ threads[u].pc \in {"calling", "saving"})

\* C9: a task that hit a provider failure or a write failure is recorded by
\* the orchestrator as failed.
C9_FailureRecorded ==
  \A c \in collected : threads[c.task].hit => c.failed

\* what an unreadable archive leads to, up to the content written: a
\* warning, one request by rolling period for the full retention window, and
\* the file untouched when the response is empty or the call raises
UnreadableHandled ==
  /\ (pc = "idle" /\ file.kind = "unreadable" /\ pc' # "idle")
       => /\ warned'
          /\ calls' = 1
          /\ req' = [kind |-> "period", period |-> INTERVAL_LIMITS[interval],
                     start |-> 0]
  /\ (pc = "calling" /\ warned /\ outcome' \in {"empty", "raised"})
       => file' = file

C11_RunCompletes ==
  /\ <>(mainpc = "exit")
  /\ [](mainpc = "exit" /\ source_file.exists =>
          /\ DOMAIN threads = DOMAIN source_file.rows
          /\ \A t \in DOMAIN threads :
               /\ threads[t].iv = NumIntervals + 1
               /\ threads[t].pc = "finished"
               /\ futures[t].st = "finished")

C11_Witness ==
  /\ mainpc = "exit"
  /\ DOMAIN threads = 1..2
  /\ threads[1].hit
  /\ ~threads[2].hit

CoarseCodes == {"1d", "5d", "1wk", "1mo", "3mo"}
HasRows == file.kind = "table" /\ file.rows # <<>>
\* a step that starts an execution of the loop body
BodyStarts == pc = "idle" /\ now' = now
FullPeriod ==
  [kind |-> "period", period |-> INTERVAL_LIMITS[interval], start |-> 0]

\* C12: a request carries a start date exactly when the interval is coarse
\* and a readable archive with rows exists, and the interval's retention
\* period otherwise, never both; an intraday interval with an archive always
\* issues the full-period request.
C12_OneSelector ==
  [][/\ (BodyStarts /\ pc' = "calling") =>
          /\ req'.kind \in {"start", "period"}
          /\ req'.kind = "start" <=> (interval \in CoarseCodes /\ HasRows)
          /\ req'.kind = "start" => req'.period = ""
          /\ req'.kind = "period" => req' = FullPeriod
     /\ (BodyStarts /\ interval \notin CoarseCodes /\ HasRows) =>
          (pc' = "calling" /\ calls' = 1 /\ req' = FullPeriod)]_vars

C12_Witness ==
  /\ pc = "calling"
  /\ req.kind = "start"
  /\ interval = "1wk"

LastRowTs == file.rows[Len(file.rows)].ts
Skipped == pc' = "idle" /\ calls' = 0 /\ writes' = 0 /\ file' = file
Queried ==
  /\ pc' = "calling"
  /\ calls' = 1
  /\ req' = [kind |-> "start", period |-> "", start |-> LastRowTs + 1]

\* C13 as stated: the provider is queried from requestStart whenever
\* requestStart <= now, and not at all when requestStart is later than now.
C13_QueriedUpToNow ==
  [][(BodyStarts /\ interval \in CoarseCodes /\ HasRows) =>
       IF LastRowTs + 1 <= now THEN Queried ELSE Skipped]_vars

\* C13 as amended: the provider is queried from requestStart whenever
\* requestStart is strictly before now; when requestStart is now or later no
\* request is made and the archive is not written.
C13_QueriedBeforeNow ==
  [][(BodyStarts /\ interval \in CoarseCodes /\ HasRows) =>
       IF LastRowTs + 1 < now THEN Queried ELSE Skipped]_vars

C13_Witness ==
  /\ pc = "idle"
  /\ outcome = "current"
  /\ branch = "coarse"
  /\ HasRows
  /\ LastRowTs + 1 = now

\* C14: merging the same response again changes nothing: reconcile(A, R) and
\* reconcile(R, B) equal R = reconcile(A, B), and a sync that receives the
\* response the previous sync received persists the same archive.
C14_Idempotent ==
  [][SaveCompletes =>
       /\ Merging =>
            LET R == Concat(existing_df, new_data)
            IN Concat(existing_df, R) = R /\ Concat(R, new_data) = R
       /\ ToCsv(ToWrite(Branch(file', interval), Existing(file'), new_data)) = file']_vars

\* C15: an interval is treated as coarse exactly when its limit is max and
\* as intraday exactly when its limit is a number of days; every interval
\* has one limit.
C15_LimitsMatchBranch ==
  /\ \A iv \in DOMAIN INTERVAL_LIMITS :
       /\ iv \in DAILY_PLUS <=> INTERVAL_LIMITS[iv] = "max"
       /\ iv \notin DAILY_PLUS <=> INTERVAL_LIMITS[iv] \in {"7d", "60d", "730d"}
  /\ DAILY_PLUS \subseteq DOMAIN INTERVAL_LIMITS
  /\ DOMAIN INTERVAL_LIMITS = {INTERVAL_ORDER[k] : k \in 1..Len(INTERVAL_ORDER)}
  /\ Cardinality(DOMAIN INTERVAL_LIMITS) = Len(INTERVAL_ORDER)
  /\ (pc = "calling" /\ Merging) =>
       /\ branch = "coarse" <=> INTERVAL_LIMITS[interval] = "max"
       /\ req.kind = "start" <=> INTERVAL_LIMITS[interval] = "max"

C15_Witness ==
  /\ pc = "calling"
  /\ branch = "coarse"
  /\ interval = "3mo"
  /\ req.kind = "start"

InFlight ==
  {t \in DOMAIN threads :
     threads[t].pc \in {"sleep", "top", "calling", "saving", "return"}}

\* C16: at most MAX_WORKERS tasks are started and not finished at any time.
C16_PoolBound ==
  /\ Cardinality(InFlight) <= MAX_WORKERS
  /\ Cardinality(Running) <= MAX_WORKERS
  /\ \A t \in InFlight : futures[t].st = "running"

C16_Witness ==
  /\ Cardinality(InFlight) = MAX_WORKERS
  /\ \E t \in Tasks : futures[t].st = "pending"

\* C17: in a merge, sides that both carry a zone or both carry none keep
\* theirs; when exactly one side is naive that side gets the other's zone
\* and the aware side keeps its own; no timestamp value changes.
C17_OnlyNaiveSideLocalized ==
  [][(SaveCompletes /\ Merging) =>
       LET e == AlignedExistingTz(existing_df, new_data)
           n == AlignedNewTz(existing_df, new_data)
       IN /\ existing_df.tz = new_data.tz =>
               (e = existing_df.tz /\ n = new_data.tz /\ file'.tz = new_data.tz)
          /\ existing_df.tz # new_data.tz =>
               (e = "aware" /\ n = "aware" /\ file'.tz = "aware")
          /\ TimestampsOf(file'.rows) =
               TimestampsOf(existing_df.rows) \cup TimestampsOf(new_data.rows)]_vars

C17_Witness ==
  /\ pc = "saving"
  /\ Merging
  /\ existing_df.tz = "naive"
  /\ new_data.tz = "aware"

\* C18: a sync of a readable archive with rows (one that is not killed)
\* keeps the file and every timestamp stored in it.
C18_AppendOnly ==
  [][(HasRows /\ ~(pc = "saving" /\ outcome' = "killed")) =>
       /\ file'.kind = "table"
       /\ TimestampsOf(file.rows) \subseteq TimestampsOf(file'.rows)]_vars

\* C19: the start date of a coarse request is one day after the greatest
\* timestamp stored in the archive.
C19_StartAfterMaximum ==
  (pc = "calling" /\ branch = "coarse") =>
    \E m \in TimestampsOf(file.rows) :
      /\ \A t \in TimestampsOf(file.rows) : t <= m
      /\ req.start = m + 1

====
